---- MODULE Spec2Model ----
(***************************************************************************)
(* Model of SearchTool::search (src/tools/search_tool.rs): one call builds *)
(* an in-memory index over the text files below a directory, commits it,   *)
(* runs one keyword query and formats the top hits.                        *)
(*                                                                         *)
(* File contents, extensions and keywords are byte strings.  A byte string *)
(* is kept run-length encoded: a sequence of runs <<b, n>>, n >= 1 copies  *)
(* of byte b, so that files longer than the 8192-byte sample and words     *)
(* longer than the tokenizer's limit are ordinary values.                  *)
(***************************************************************************)
EXTENDS Integers, Sequences, FiniteSets, TLC

(***************************************************************************)
(* Byte strings                                                            *)
(***************************************************************************)
Min(a, b) == IF a <= b THEN a ELSE b

RECURSIVE ByteLen(_)
\* bytes.len()
ByteLen(rs) == IF rs = <<>> THEN 0 ELSE Head(rs)[2] + ByteLen(Tail(rs))

RECURSIVE TakeBytes(_, _)
\* &bytes[..k], for k <= bytes.len()
TakeBytes(rs, k) ==
    IF k = 0 \/ rs = <<>> THEN <<>>
    ELSE IF Head(rs)[2] >= k THEN << <<Head(rs)[1], k>> >>
    ELSE <<Head(rs)>> \o TakeBytes(Tail(rs), k - Head(rs)[2])

\* mutant: only the first byte is looked at
HasNulFirstOnly(rs) == rs # <<>> /\ rs[1][1] = 0

\* sample.iter().any(|&b| b == 0)
HasNul(rs) == \E i \in 1..Len(rs) : rs[i][1] = 0

\* b < 32 && b != 9 && b != 10 && b != 13
IsControl(b) == b < 32 /\ b # 9 /\ b # 10 /\ b # 13

RECURSIVE CountControl(_)
CountControl(rs) ==
    IF rs = <<>> THEN 0
    ELSE (IF IsControl(Head(rs)[1]) THEN Head(rs)[2] ELSE 0) + CountControl(Tail(rs))

RECURSIVE CountAscii(_)
\* sample.iter().filter(|&&b| b <= 127).count()
CountAscii(rs) ==
    IF rs = <<>> THEN 0
    ELSE (IF Head(rs)[1] <= 127 THEN Head(rs)[2] ELSE 0) + CountAscii(Tail(rs))

(***************************************************************************)
(* std::str::from_utf8: a decoder state is <<need, lo, hi>>, the number of *)
(* continuation bytes still expected and the range the next one must lie  *)
(* in; <<-1, 0, 0>> is the error state.                                    *)
(***************************************************************************)
Utf8Start == <<0, 0, 0>>
Utf8Bad == <<-1, 0, 0>>

Utf8Step(st, b) ==
    IF st[1] < 0 THEN Utf8Bad
    ELSE IF st[1] = 0 THEN
        IF b <= 127 THEN Utf8Start
        ELSE IF b >= 194 /\ b <= 223 THEN <<1, 128, 191>>
        ELSE IF b = 224 THEN <<2, 160, 191>>
        ELSE IF b = 237 THEN <<2, 128, 159>>
        ELSE IF b >= 225 /\ b <= 239 THEN <<2, 128, 191>>
        ELSE IF b = 240 THEN <<3, 144, 191>>
        ELSE IF b = 244 THEN <<3, 128, 143>>
        ELSE IF b >= 241 /\ b <= 243 THEN <<3, 128, 191>>
        ELSE Utf8Bad
    ELSE IF b >= st[2] /\ b <= st[3] THEN
        (IF st[1] = 1 THEN Utf8Start ELSE <<st[1] - 1, 128, 191>>)
    ELSE Utf8Bad

RECURSIVE Utf8Run(_, _, _)
\* n copies of b; after four copies of one byte the decoder is in the
\* error state or back in the start state, where it stays
Utf8Run(st, b, n) ==
    IF n = 0 THEN st ELSE Utf8Run(Utf8Step(st, b), b, Min(n, 4) - 1)

RECURSIVE Utf8Scan(_, _)
Utf8Scan(st, rs) ==
    IF rs = <<>> THEN st
    ELSE Utf8Scan(Utf8Run(st, Head(rs)[1], Head(rs)[2]), Tail(rs))

\* std::str::from_utf8(bytes).is_ok()
IsValidUtf8(rs) == Utf8Scan(Utf8Start, rs) = Utf8Start

(***************************************************************************)
(* The extension denylist                                                  *)
(***************************************************************************)
\* u8::to_ascii_lowercase; the extensions of the model are ASCII
LowerByte(b) == IF b >= 65 /\ b <= 90 THEN b + 32 ELSE b

\* ext.to_string_lossy().to_lowercase()
LowerExt(ext) == [i \in 1..Len(ext) |-> LowerByte(ext[i])]

binary_extensions ==
    {
       <<101,120,101>>, <<100,108,108>>, <<115,111>>,   \* exe dll so
       <<100,121,108,105,98>>, <<98,105,110>>, <<111,98,106>>,   \* dylib bin obj
       <<111>>, <<97>>, <<108,105,98>>,   \* o a lib
       <<112,110,103>>, <<106,112,103>>, <<106,112,101,103>>,   \* png jpg jpeg
       <<103,105,102>>, <<98,109,112>>, <<116,105,102,102>>,   \* gif bmp tiff
       <<119,101,98,112>>, <<105,99,111>>, <<109,112,51>>,   \* webp ico mp3
       <<109,112,52>>, <<119,97,118>>, <<111,103,103>>,   \* mp4 wav ogg
       <<102,108,97,99>>, <<97,118,105>>, <<109,111,118>>,   \* flac avi mov
       <<109,107,118>>, <<122,105,112>>, <<103,122>>,   \* mkv zip gz
       <<116,97,114>>, <<55,122>>, <<114,97,114>>,   \* tar 7z rar
       <<106,97,114>>, <<119,97,114>>, <<112,100,102>>,   \* jar war pdf
       <<100,111,99>>, <<100,111,99,120>>, <<120,108,115>>,   \* doc docx xls
       <<120,108,115,120>>, <<112,112,116>>, <<112,112,116,120>>,   \* xlsx ppt pptx
       <<100,98>>, <<115,113,108,105,116,101>>, <<109,100,98>>,   \* db sqlite mdb
       <<105,115,111>>, <<100,109,103>>, <<99,108,97,115,115>>   \* iso dmg class
    }

(***************************************************************************)
(* Files.  A file is [ext, bytes, readable]: the extension of its path     *)
(* (<<>> when path.extension() is None), its contents, and whether the     *)
(* file system lets the process read it.                                   *)
(***************************************************************************)
SampleLimit == 8192

\* control_chars_count as f32 / sample_size as f32 > 0.3; both counts are at
\* most 8192, so the f32 quotient compares with 0.3f32 as the exact ratio
\* compares with 3/10
ControlRatioTooHigh(control_chars_count, sample_size) ==
    control_chars_count * 10 > 3 * sample_size

\* ascii_ratio > 0.8, likewise exact
AsciiRatioHigh(ascii_count, sample_size) == ascii_count * 5 > 4 * sample_size

HasBinaryExtension(ext) == ext # <<>> /\ LowerExt(ext) \in binary_extensions

\* the sample the classifier looks at
Sample(bytes) == TakeBytes(bytes, Min(ByteLen(bytes), SampleLimit))

\* mutant: valid UTF-8 and a high ASCII ratio are both required
is_text_file_both(f) ==
    IF HasBinaryExtension(f.ext) THEN FALSE
    ELSE IF ~f.readable \/ ByteLen(f.bytes) = 0 THEN FALSE
    ELSE LET sample_size == Min(ByteLen(f.bytes), SampleLimit)
             sample == TakeBytes(f.bytes, sample_size)
         IN  IF HasNul(sample) THEN FALSE
             ELSE IF ControlRatioTooHigh(CountControl(sample), sample_size) THEN FALSE
             ELSE IsValidUtf8(sample) /\ AsciiRatioHigh(CountAscii(sample), sample_size)

is_text_file(f) ==
    IF HasBinaryExtension(f.ext) THEN FALSE
    ELSE IF ~f.readable \/ ByteLen(f.bytes) = 0 THEN FALSE
    ELSE LET sample_size == Min(ByteLen(f.bytes), SampleLimit)
             sample == TakeBytes(f.bytes, sample_size)
             control_chars_count == CountControl(sample)
             is_valid_utf8 == IsValidUtf8(sample)
         IN  IF HasNul(sample) THEN FALSE
             ELSE IF ControlRatioTooHigh(control_chars_count, sample_size) THEN FALSE
             ELSE is_valid_utf8 \/ AsciiRatioHigh(CountAscii(sample), sample_size)

\* fs::read_to_string(&path).is_ok(): the whole file must be valid UTF-8
ReadToStringOk(f) == f.readable /\ IsValidUtf8(f.bytes)

\* char::is_whitespace on the ASCII range (str::trim); the model's only
\* non-ASCII character is U+00E9, which is not white space
IsWhitespace(b) == b \in {9, 10, 11, 12, 13, 32}

\* content.trim().is_empty()
IsBlank(bytes) == \A i \in 1..Len(bytes) : IsWhitespace(bytes[i][1])

\* What process_directory does with one regular file: "indexed" when it
\* hands the document to the writer, else the reason it is skipped.
FileDecision(f) ==
    IF is_text_file(f) THEN
        IF ReadToStringOk(f) THEN
            IF ~IsBlank(f.bytes) THEN "indexed" ELSE "skipped_empty"
        ELSE "skipped_read_error"
    ELSE "skipped_non_text"

(***************************************************************************)
(* The "default" tokenizer of the content field and the query it serves:   *)
(* words are the maximal runs of alphanumeric characters, words of 40      *)
(* bytes or more are dropped, the rest are lowercased.  A term is kept in  *)
(* canonical form (adjacent runs of one byte merged).                      *)
(***************************************************************************)
\* char::is_alphanumeric; every byte of U+00E9, the model's only non-ASCII
\* character, belongs to a letter
IsAlnum(b) ==
    \/ b >= 48 /\ b <= 57
    \/ b >= 65 /\ b <= 90
    \/ b >= 97 /\ b <= 122
    \/ b >= 128

RECURSIVE SplitWords(_, _)
\* the words of a byte string, in order; cur is the word being read
SplitWords(rs, cur) ==
    IF rs = <<>> THEN (IF cur = <<>> THEN <<>> ELSE <<cur>>)
    ELSE IF IsAlnum(Head(rs)[1]) THEN SplitWords(Tail(rs), Append(cur, Head(rs)))
    ELSE (IF cur = <<>> THEN <<>> ELSE <<cur>>) \o SplitWords(Tail(rs), <<>>)

Words(bytes) == LET ws == SplitWords(bytes, <<>>) IN {ws[i] : i \in 1..Len(ws)}

RECURSIVE Canon(_)
Canon(rs) ==
    IF Len(rs) < 2 THEN rs
    ELSE IF rs[1][1] = rs[2][1]
         THEN Canon(<< <<rs[1][1], rs[1][2] + rs[2][2]>> >> \o Tail(Tail(rs)))
         ELSE <<rs[1]>> \o Canon(Tail(rs))

LowerWord(w) == Canon([i \in 1..Len(w) |-> <<LowerByte(w[i][1]), w[i][2]>>])

\* the terms the tokenizer emits for a text
Terms(bytes) == {LowerWord(w) : w \in {x \in Words(bytes) : ByteLen(x) < 40}}

(***************************************************************************)
(* The schema (lines 33-43): path is stored and not indexed, content is    *)
(* indexed with the tokenizer above and stored.  A field is named by the   *)
(* bytes of its name.                                                      *)
(***************************************************************************)
\* "path", "content"
path_field == << <<112, 1>>, <<97, 1>>, <<116, 1>>, <<104, 1>> >>
content_field ==
    << <<99, 1>>, <<111, 1>>, <<110, 1>>, <<116, 1>>, <<101, 1>>, <<110, 1>>, <<116, 1>> >>

IsIndexedField(name) == name = content_field

\* mutant: the query parser is bound to the path field
default_fields_path == {path_field}

\* QueryParser::for_index(&index, vec![content_field])
default_fields == {content_field}

(***************************************************************************)
(* The query language.  A keyword of the model is made of alphanumeric     *)
(* bytes, white space and ':'.  Its literals are the chunks between white  *)
(* space.  AND, OR, NOT and IN are reserved words, never terms; "name:" is *)
(* a field prefix.  The model's keywords hold at most one binary operator, *)
(* so the precedence between AND and OR is not modelled.                   *)
(***************************************************************************)
WordAnd == << <<65, 1>>, <<78, 1>>, <<68, 1>> >>
WordOr == << <<79, 1>>, <<82, 1>> >>
WordNot == << <<78, 1>>, <<79, 1>>, <<84, 1>> >>
WordIn == << <<73, 1>>, <<78, 1>> >>

RECURSIVE SplitLiterals(_, _)
SplitLiterals(rs, cur) ==
    IF rs = <<>> THEN (IF cur = <<>> THEN <<>> ELSE <<cur>>)
    ELSE IF ~IsWhitespace(Head(rs)[1]) THEN SplitLiterals(Tail(rs), Append(cur, Head(rs)))
    ELSE (IF cur = <<>> THEN <<>> ELSE <<cur>>) \o SplitLiterals(Tail(rs), <<>>)

Literals(kw) == SplitLiterals(kw, <<>>)

Colons(l) == {i \in 1..Len(l) : l[i][1] = 58}

\* a literal read as a leaf of the query: the fields it is looked up in, the
\* terms the field's tokenizer makes of it, and whether it is accepted (a
\* prefix must name an indexed field and be followed by a word; without a
\* prefix the default fields apply, and they must be indexed)
Leaf(l) ==
    IF Colons(l) = {} THEN
        [ok |-> \A f \in default_fields : IsIndexedField(f),
         fields |-> default_fields, terms |-> Terms(l)]
    ELSE LET i == CHOOSE c \in Colons(l) : \A d \in Colons(l) : c <= d
             name == Canon(SubSeq(l, 1, i - 1))
             rest == SubSeq(l, i + 1, Len(l))
         IN  [ok |-> /\ l[i][2] = 1
                     /\ IsIndexedField(name)
                     /\ rest # <<>>
                     /\ Colons(rest) = {},
              fields |-> {name}, terms |-> Terms(rest)]

LiteralKind(l) ==
    IF Canon(l) \in {WordAnd, WordOr} THEN "bin"
    ELSE IF Canon(l) = WordNot THEN "not"
    ELSE IF Canon(l) = WordIn \/ ~Leaf(l).ok THEN "bad"
    ELSE "leaf"

RECURSIVE Grammar(_, _)
\* the state of the parser after the literals ls: "operand" when an operand
\* has just been read, "need" when one is due, "negated" after NOT
Grammar(ls, st) ==
    IF ls = <<>> \/ st = "error" THEN st
    ELSE LET k == LiteralKind(Head(ls))
             nxt == IF k = "leaf" THEN "operand"
                    ELSE IF k = "not" /\ st # "negated" THEN "negated"
                    ELSE IF k = "bin" /\ st = "operand" THEN "need"
                    ELSE "error"
         IN  Grammar(Tail(ls), nxt)

\* query_parser.parse_query(&params.keyword).is_err()
ParseFails(kw) == Grammar(Literals(kw), "need") # "operand"

\* the leaves of a keyword that parses, by position, with the terms to find
LeafPositions(kw) ==
    LET ls == Literals(kw)
    IN  {i \in 1..Len(ls) : LiteralKind(ls[i]) = "leaf" /\ Leaf(ls[i]).terms # {}}

IsNegated(ls, i) == i > 1 /\ LiteralKind(ls[i - 1]) = "not"
IsRequired(ls, i) ==
    /\ ~IsNegated(ls, i)
    /\ \/ i > 1 /\ Canon(ls[i - 1]) = WordAnd
       \/ i < Len(ls) /\ Canon(ls[i + 1]) = WordAnd

\* the text of a document's field as the index holds it; the path field is
\* not indexed
FieldText(d, name) == IF name = content_field THEN d.content ELSE <<>>

LeafMatches(d, leaf) ==
    \E f \in leaf.fields : IsIndexedField(f) /\ leaf.terms \cap Terms(FieldText(d, f)) # {}

\* whether the query of a keyword matches a document: every required leaf,
\* no negated leaf, and some leaf when none is required
QueryMatches(d, kw) ==
    LET ls == Literals(kw)
        pos == LeafPositions(kw)
        must == {i \in pos : IsRequired(ls, i)}
        mustnot == {i \in pos : IsNegated(ls, i)}
        should == pos \ (must \cup mustnot)
    IN  /\ \A i \in must : LeafMatches(d, Leaf(ls[i]))
        /\ \A i \in mustnot : ~LeafMatches(d, Leaf(ls[i]))
        /\ \/ must # {}
           \/ \E i \in should : LeafMatches(d, Leaf(ls[i]))

\* the documents of the committed index the query matches
Matching(docs, kw) == {i \in 1..Len(docs) : QueryMatches(docs[i], kw)}

TopLimit == 10

\* TopDocs::with_limit(10): the ten best of the matching documents.  The
\* relevance order is the library's; any choice of min(10, n) of the n
\* matching documents is a possible outcome here.
TopDocsChoices(docs, kw) ==
    LET m == Matching(docs, kw)
        want == Min(TopLimit, Cardinality(m))
    IN  {s \in SUBSET m : Cardinality(s) = want}

(***************************************************************************)
(* The file system below the directory argument.  An entry of a directory  *)
(* is a regular file, a subdirectory (readable or not), an entry whose     *)
(* read fails while iterating ("enterr"), or something that is neither a   *)
(* file nor a directory ("other": a dangling link, a socket).  The         *)
(* directory argument itself is such an entry; "other" stands for a path   *)
(* that does not exist.                                                    *)
(***************************************************************************)
FileEntry(ext, bytes, readable) ==
    [kind |-> "file", ext |-> ext, bytes |-> bytes, readable |-> readable,
     entries |-> <<>>]

DirEntry(readable, entries) ==
    [kind |-> "dir", ext |-> <<>>, bytes |-> <<>>, readable |-> readable,
     entries |-> entries]

BadEntry ==
    [kind |-> "enterr", ext |-> <<>>, bytes |-> <<>>, readable |-> FALSE,
     entries |-> <<>>]

OtherEntry ==
    [kind |-> "other", ext |-> <<>>, bytes |-> <<>>, readable |-> FALSE,
     entries |-> <<>>]

\* extensions: txt, PNG
ExtTxt == <<116, 120, 116>>
ExtPng == <<80, 78, 71>>

\* "Fox a"
TextFox == << <<70, 1>>, <<111, 1>>, <<120, 1>>, <<32, 1>>, <<97, 1>> >>
\* 8192 times 'a', a NUL, "NOT b"
TextBig ==
    << <<97, 8192>>, <<0, 1>>, <<78, 1>>, <<79, 1>>, <<84, 1>>, <<32, 1>>, <<98, 1>> >>
\* "  \n"
BytesBlank == << <<32, 2>>, <<10, 1>> >>
\* "aaaaa" and a lone 0xE9: not UTF-8, ASCII ratio 5/6
BytesLatin1 == << <<97, 5>>, <<233, 1>> >>

Notes == FileEntry(ExtTxt, TextFox, TRUE)
Image == FileEntry(ExtPng, TextFox, TRUE)

FileCatalog ==
    { Notes, Image,
      FileEntry(<<>>, TextBig, TRUE),
      FileEntry(ExtTxt, BytesBlank, TRUE),
      FileEntry(ExtTxt, BytesLatin1, TRUE),
      FileEntry(ExtTxt, <<>>, TRUE),
      FileEntry(ExtTxt, TextFox, FALSE) }

EntryCatalog ==
    FileCatalog \cup
    { BadEntry, OtherEntry,
      DirEntry(FALSE, <<>>),
      DirEntry(TRUE, <<>>),
      DirEntry(TRUE, <<Image, Notes>>) }

\* bounds of the directories the model searches
MaxPrefix == 1
MaxCopies == 11

SeqsUpTo(S, n) == UNION {[1..k -> S] : k \in 0..n}

\* a directory: a few entries of the catalog, then k copies of one file
Directories ==
    { DirEntry(TRUE, p \o [i \in 1..k |-> c]) :
        p \in SeqsUpTo(EntryCatalog, MaxPrefix),
        k \in 0..MaxCopies, c \in {Notes, Image} }
    \cup { DirEntry(FALSE, <<>>), Notes, OtherEntry }

\* keywords: "", " ", "Fox", "b", "a:b", "content:b", "NOT", 8192 times 'a'
Keywords ==
    { <<>>,
      << <<32, 1>> >>,
      << <<70, 1>>, <<111, 1>>, <<120, 1>> >>,
      << <<98, 1>> >>,
      << <<97, 1>>, <<58, 1>>, <<98, 1>> >>,
      content_field \o << <<58, 1>>, <<98, 1>> >>,
      WordNot,
      << <<97, 8192>> >> }

(***************************************************************************)
(* State of one call of search                                             *)
(***************************************************************************)
VARIABLES
    pc,                   \* the statement the call is at
    directory,            \* what params.directory resolves to
    keyword,              \* params.keyword
    stack,                \* the active calls of process_directory
    found_files_count,
    indexed_files_count,
    skipped_files_count,
    writer_docs,          \* documents handed to index_writer, in order
    committed,            \* documents visible to a reader of the index
    top_docs,             \* the hits of the query: positions in committed
    result,               \* the Result the call returns
    events,               \* index operations and the end of the walk, in order
    cfile,                \* classification alone: the file
    cdecision             \* classification alone: verdict and decision

vars ==
    <<pc, directory, keyword, stack, found_files_count, indexed_files_count,
      skipped_files_count, writer_docs, committed, top_docs, result, events,
      cfile, cdecision>>

Res(ok, kind, tag, cause, hits) ==
    [ok |-> ok, kind |-> kind, tag |-> tag, cause |-> cause,
     found |-> found_files_count, indexed |-> indexed_files_count,
     skipped |-> skipped_files_count, hits |-> hits]

NoResult ==
    [ok |-> FALSE, kind |-> "none", tag |-> "", cause |-> "",
     found |-> 0, indexed |-> 0, skipped |-> 0, hits |-> {}]

\* Err(format!("<tag>: {}", e)): a message that names the stage and the cause
StageError(tag, cause) == Res(FALSE, "error", tag, cause, {})
\* Err(e.to_string()): the cause alone
BareError(cause) == Res(FALSE, "error", "", cause, {})

NoDecision == [verdict |-> FALSE, decision |-> "none"]

Init ==
    /\ pc = "start"
    /\ directory \in Directories
    /\ keyword \in Keywords
    /\ stack = <<>>
    /\ found_files_count = 0
    /\ indexed_files_count = 0
    /\ skipped_files_count = 0
    /\ writer_docs = <<>>
    /\ committed = <<>>
    /\ top_docs = {}
    /\ result = NoResult
    /\ events = <<>>
    /\ cfile = Notes
    /\ cdecision = NoDecision

inputs == <<directory, keyword, cfile, cdecision>>
counters == <<found_files_count, indexed_files_count, skipped_files_count>>
index == <<writer_docs, committed, top_docs>>

\* return from search
Return(r) ==
    /\ pc' = "done"
    /\ result' = r

Log(e) == events' = Append(events, e)

\* Index::create_in_ram(schema.clone())
CreateIndex ==
    /\ pc = "start"
    /\ pc' = "writer"
    /\ Log("create_index")
    /\ UNCHANGED <<inputs, stack, counters, index, result>>

\* index.writer(50_000_000)
CreateWriter ==
    /\ pc = "writer"
    /\ pc' = "check_dir"
    /\ Log("create_writer")
    /\ UNCHANGED <<inputs, stack, counters, index, result>>

CreateWriterFails ==
    /\ pc = "writer"
    /\ Return(StageError("Index writer error", "writer"))
    /\ UNCHANGED <<inputs, stack, counters, index, events>>

\* !dir_path.is_dir()
NotADirectory ==
    /\ pc = "check_dir"
    /\ directory.kind # "dir"
    /\ Return(Res(FALSE, "not_a_directory", "", "", {}))
    /\ UNCHANGED <<inputs, stack, counters, index, events>>

Frame(path, entries) == [path |-> path, entries |-> entries, next |-> 1]

\* process_directory(dir_path, ...): fs::read_dir of the root
StartWalk ==
    /\ pc = "check_dir"
    /\ directory.kind = "dir"
    /\ directory.readable
    /\ pc' = "walking"
    /\ stack' = <<Frame(<<>>, directory.entries)>>
    /\ UNCHANGED <<inputs, counters, index, result, events>>

RootReadFails ==
    /\ pc = "check_dir"
    /\ directory.kind = "dir"
    /\ ~directory.readable
    /\ Return(StageError("Directory read error", "read_dir"))
    /\ UNCHANGED <<inputs, stack, counters, index, events>>

Top == stack[Len(stack)]
HasEntry == pc = "walking" /\ stack # <<>> /\ Top.next <= Len(Top.entries)
Entry == Top.entries[Top.next]
EntryPath == Append(Top.path, Top.next)
Advanced == [stack EXCEPT ![Len(stack)].next = @ + 1]

\* the for loop of process_directory is over: Ok(())
ReturnFromDirectory ==
    /\ pc = "walking"
    /\ stack # <<>>
    /\ Top.next > Len(Top.entries)
    /\ stack' = SubSeq(stack, 1, Len(stack) - 1)
    /\ pc' = IF Len(stack) = 1 THEN "walked" ELSE "walking"
    /\ events' = IF Len(stack) = 1 THEN Append(events, "walked") ELSE events
    /\ UNCHANGED <<inputs, counters, index, result>>

\* entry.map_err(...)?
EntryReadFails ==
    /\ HasEntry
    /\ Entry.kind = "enterr"
    /\ Return(StageError("Entry read error", "entry"))
    /\ UNCHANGED <<inputs, stack, counters, index, events>>

\* path.is_dir(): the recursive call, whose fs::read_dir succeeds
Descend ==
    /\ HasEntry
    /\ Entry.kind = "dir"
    /\ Entry.readable
    /\ stack' = Append(Advanced, Frame(EntryPath, Entry.entries))
    /\ UNCHANGED <<pc, inputs, counters, index, result, events>>

\* the recursive call, whose fs::read_dir fails; ? carries the error up
SubdirReadFails ==
    /\ HasEntry
    /\ Entry.kind = "dir"
    /\ ~Entry.readable
    /\ Return(StageError("Directory read error", "read_dir"))
    /\ UNCHANGED <<inputs, stack, counters, index, events>>

\* neither is_dir nor is_file
SkipOther ==
    /\ HasEntry
    /\ Entry.kind = "other"
    /\ stack' = Advanced
    /\ UNCHANGED <<pc, inputs, counters, index, result, events>>

Document(path, content) == [path |-> path, content |-> content]

\* mutant: a commit after every added document
IndexFileCommitting ==
    /\ HasEntry
    /\ Entry.kind = "file"
    /\ FileDecision(Entry) = "indexed"
    /\ found_files_count' = found_files_count + 1
    /\ writer_docs' = Append(writer_docs, Document(EntryPath, Entry.bytes))
    /\ committed' = writer_docs'
    /\ indexed_files_count' = indexed_files_count + 1
    /\ skipped_files_count' = skipped_files_count
    /\ events' = events \o <<"add", "commit">>
    /\ stack' = Advanced
    /\ UNCHANGED <<pc, inputs, top_docs, result>>

\* a file that is text, reads as a string and is not blank: add_document
IndexFile ==
    /\ HasEntry
    /\ Entry.kind = "file"
    /\ FileDecision(Entry) = "indexed"
    /\ found_files_count' = found_files_count + 1
    /\ writer_docs' = Append(writer_docs, Document(EntryPath, Entry.bytes))
    /\ indexed_files_count' = indexed_files_count + 1
    /\ skipped_files_count' = skipped_files_count
    /\ Log("add")
    /\ stack' = Advanced
    /\ UNCHANGED <<pc, inputs, committed, top_docs, result>>

\* add_document(...).map_err(...)?
AddDocumentFails ==
    /\ HasEntry
    /\ Entry.kind = "file"
    /\ FileDecision(Entry) = "indexed"
    /\ found_files_count' = found_files_count + 1
    /\ pc' = "done"
    /\ result' = [StageError("Document addition error", "add")
                    EXCEPT !.found = found_files_count + 1]
    /\ UNCHANGED <<inputs, stack, indexed_files_count, skipped_files_count,
                   index, events>>

\* mutant: a skipped file is not counted as skipped
SkipFileUncounted ==
    /\ HasEntry
    /\ Entry.kind = "file"
    /\ FileDecision(Entry) # "indexed"
    /\ found_files_count' = found_files_count + 1
    /\ stack' = Advanced
    /\ UNCHANGED <<pc, inputs, indexed_files_count, skipped_files_count, index,
                   result, events>>

\* a file that is not text, does not read as a string or is blank
SkipFile ==
    /\ HasEntry
    /\ Entry.kind = "file"
    /\ FileDecision(Entry) # "indexed"
    /\ found_files_count' = found_files_count + 1
    /\ skipped_files_count' = skipped_files_count + 1
    /\ indexed_files_count' = indexed_files_count
    /\ stack' = Advanced
    /\ UNCHANGED <<pc, inputs, index, result, events>>

\* if indexed_files_count == 0 { return Ok("No text files ...") }
NothingIndexed == indexed_files_count = 0

NoIndexedFiles ==
    /\ pc = "walked"
    /\ NothingIndexed
    /\ Return(Res(TRUE, "no_text_files", "", "", {}))
    /\ UNCHANGED <<inputs, stack, counters, index, events>>

\* what index_writer.commit() makes visible to readers
Published(docs) == docs

\* index_writer.commit()
Commit ==
    /\ pc = "walked"
    /\ ~NothingIndexed
    /\ committed' = Published(writer_docs)
    /\ Log("commit")
    /\ pc' = "reader"
    /\ UNCHANGED <<inputs, stack, counters, writer_docs, top_docs, result>>

CommitFails ==
    /\ pc = "walked"
    /\ ~NothingIndexed
    /\ Return(StageError("Commit error", "commit"))
    /\ UNCHANGED <<inputs, stack, counters, index, events>>

\* index.reader(), reader.searcher(), QueryParser::for_index
OpenReader ==
    /\ pc = "reader"
    /\ Log("open_reader")
    /\ pc' = "keyword"
    /\ UNCHANGED <<inputs, stack, counters, index, result>>

\* index.reader().map_err(|e| e.to_string())?
OpenReaderFails ==
    /\ pc = "reader"
    /\ Return(BareError("reader"))
    /\ UNCHANGED <<inputs, stack, counters, index, events>>

\* params.keyword.trim().is_empty()
EmptyKeyword ==
    /\ pc = "keyword"
    /\ IsBlank(keyword)
    /\ Return(Res(FALSE, "empty_keyword", "", "", {}))
    /\ UNCHANGED <<inputs, stack, counters, index, events>>

\* query_parser.parse_query(&params.keyword)
ParseQuery ==
    /\ pc = "keyword"
    /\ ~IsBlank(keyword)
    /\ ~ParseFails(keyword)
    /\ pc' = "search"
    /\ UNCHANGED <<inputs, stack, counters, index, result, events>>

ParseQueryFails ==
    /\ pc = "keyword"
    /\ ~IsBlank(keyword)
    /\ ParseFails(keyword)
    /\ Return(StageError("Query parse error", "parse"))
    /\ UNCHANGED <<inputs, stack, counters, index, events>>

\* searcher.search(&query, &TopDocs::with_limit(10))
Search ==
    /\ pc = "search"
    /\ \E s \in TopDocsChoices(committed, keyword) : top_docs' = s
    /\ Log("query")
    /\ pc' = "retrieve"
    /\ UNCHANGED <<inputs, stack, counters, writer_docs, committed, result>>

SearchFails ==
    /\ pc = "search"
    /\ Return(StageError("Search error", "search"))
    /\ UNCHANGED <<inputs, stack, counters, index, events>>

\* the stored path of every hit, then the report
Format ==
    /\ pc = "retrieve"
    /\ Return(IF top_docs = {}
              THEN Res(TRUE, "no_results", "", "", {})
              ELSE Res(TRUE, "results", "", "", {committed[i].path : i \in top_docs}))
    /\ UNCHANGED <<inputs, stack, counters, index, events>>

\* searcher.doc(*doc_address).map_err(|e| e.to_string())?
RetrieveFails ==
    /\ pc = "retrieve"
    /\ top_docs # {}
    /\ Return(BareError("doc"))
    /\ UNCHANGED <<inputs, stack, counters, index, events>>

Next ==
    \/ CreateIndex
    \/ CreateWriter
    \/ CreateWriterFails
    \/ NotADirectory
    \/ StartWalk
    \/ RootReadFails
    \/ ReturnFromDirectory
    \/ EntryReadFails
    \/ Descend
    \/ SubdirReadFails
    \/ SkipOther
    \/ IndexFile
    \/ AddDocumentFails
    \/ SkipFile
    \/ NoIndexedFiles
    \/ Commit
    \/ CommitFails
    \/ OpenReader
    \/ OpenReaderFails
    \/ EmptyKeyword
    \/ ParseQuery
    \/ ParseQueryFails
    \/ Search
    \/ SearchFails
    \/ Format
    \/ RetrieveFails

Spec == Init /\ [][Next]_vars

(***************************************************************************)
(* Classification alone: one file drawn from every byte string of up to    *)
(* MaxRuns runs, classified by is_text_file and decided as                 *)
(* process_directory decides it.                                           *)
(***************************************************************************)
MaxRuns == 3

\* NUL, a control character, space, 'a', and the two bytes of U+00E9
ClassifyBytes == {0, 1, 32, 97, 195, 169}
\* run lengths: one byte, the sample size, three times the sample size
RunLengths == {1, SampleLimit, 3 * SampleLimit}

ClassifyContents == SeqsUpTo(ClassifyBytes \X RunLengths, MaxRuns)

ClassifyFiles ==
    { FileEntry(e, b, TRUE) : e \in {<<>>, ExtTxt, ExtPng}, b \in ClassifyContents }
    \cup { FileEntry(e, <<>>, FALSE) : e \in {<<>>, ExtTxt, ExtPng} }

InitClassify ==
    /\ pc = "classify"
    /\ cfile \in ClassifyFiles
    /\ cdecision = NoDecision
    /\ directory = OtherEntry
    /\ keyword = <<>>
    /\ stack = <<>>
    /\ found_files_count = 0
    /\ indexed_files_count = 0
    /\ skipped_files_count = 0
    /\ writer_docs = <<>>
    /\ committed = <<>>
    /\ top_docs = {}
    /\ result = NoResult
    /\ events = <<>>

ClassifyFile ==
    /\ pc = "classify"
    /\ pc' = "classified"
    /\ cdecision' = [verdict |-> is_text_file(cfile), decision |-> FileDecision(cfile)]
    /\ UNCHANGED <<directory, keyword, cfile, stack, counters, index, result, events>>

NextClassify == ClassifyFile

SpecClassify == InitClassify /\ [][NextClassify]_vars

(***************************************************************************)
(* Properties                                                              *)
(***************************************************************************)
Occurs(e) == {i \in 1..Len(events) : events[i] = e}
Executed(e) == Occurs(e) # {}
ContainsByte(rs, b) == \E i \in 1..Len(rs) : rs[i][1] = b
Terminated == pc = "done"

\* C1: a call with an empty or whitespace-only keyword creates no index
\* writer, adds no document and commits nothing, and ends with the
\* empty-keyword error whatever the directory holds.
C1_EmptyKeywordRejectedFirst ==
    IsBlank(keyword) =>
        /\ ~Executed("create_writer")
        /\ ~Executed("add")
        /\ ~Executed("commit")
        /\ Terminated => result.kind = "empty_keyword"

\* C2: a call whose directory argument is not a directory creates neither
\* the index nor its writer and ends with the not-a-directory error.
C2_NotADirectoryBeforeIndex ==
    directory.kind # "dir" =>
        /\ ~Executed("create_index")
        /\ ~Executed("create_writer")
        /\ Terminated => result.kind = "not_a_directory"

\* C3: once the walk of a valid root has begun, the call never returns with
\* entries left unprocessed: no traversal failure, entry failure or
\* document-addition failure ends it.
C3_WalkNeverAborts ==
    Terminated /\ directory.kind = "dir" /\ directory.readable /\ Executed("create_writer") =>
        /\ stack = <<>>
        /\ result.tag \notin {"Directory read error", "Entry read error",
                              "Document addition error"}

\* C7: every error of the building, committing and querying stages carries
\* the stage it occurred in together with the cause.
C7_StageErrorsTagged ==
    Terminated /\ result.kind = "error" => result.tag # "" /\ result.cause # ""

OnlyDenylistedFiles(d) ==
    /\ d.kind = "dir"
    /\ d.readable
    /\ d.entries # <<>>
    /\ \A i \in 1..Len(d.entries) :
        d.entries[i].kind = "file" /\ HasBinaryExtension(d.entries[i].ext)

QueryStageReached == Executed("commit") \/ Executed("open_reader") \/ Executed("query")

\* C4: a call on a directory holding only files with denylisted extensions
\* indexes nothing and never ends in an error: it returns, as a success, the
\* "no indexable files" result; and whenever the walk ends with zero indexed
\* documents the call returns that result with the found and skipped counts,
\* without committing or querying.
C4_NothingIndexedIsInformational ==
    /\ OnlyDenylistedFiles(directory) =>
        /\ indexed_files_count = 0
        /\ Terminated => result.ok /\ result.kind = "no_text_files"
    /\ Terminated /\ Executed("walked") /\ indexed_files_count = 0 =>
        /\ result.ok
        /\ result.kind = "no_text_files"
        /\ result.found = found_files_count
        /\ result.skipped = skipped_files_count
        /\ ~QueryStageReached
    /\ result.kind = "no_text_files" => result.ok /\ ~QueryStageReached

\* the order in which a call with n document additions executes its stages
StageOrder(n) ==
    <<"create_index", "create_writer">> \o [i \in 1..n |-> "add"]
        \o <<"walked", "commit", "open_reader", "query">>

\* C5: the stages run in order with no step back: all additions, then one
\* commit, then the reader, then the query; a query runs only on an index
\* whose single commit followed the last addition.
C5_CommitOnceBeforeQuery ==
    /\ events = SubSeq(StageOrder(Cardinality(Occurs("add"))), 1, Len(events))
    /\ Executed("query") =>
        /\ Cardinality(Occurs("commit")) = 1
        /\ committed = writer_docs
        /\ Len(writer_docs) = Cardinality(Occurs("add"))

C5_Witness ==
    /\ Terminated
    /\ result.kind = "results"
    /\ Executed("query")
    /\ Len(writer_docs) >= 2

\* the words of a text as they stand in it
VerbatimWords(bytes) == {Canon(w) : w \in Words(bytes)}

HoldsWord(d, kw) == Canon(kw) \in VerbatimWords(d.content)
Answered == Terminated /\ result.kind \in {"results", "no_results"}
\* the call got as far as parsing the keyword and nothing failed but the parse
QueryOutcome == Answered \/ (Terminated /\ result.tag = "Query parse error")

Found(i) == Answered /\ writer_docs[i].path \in result.hits

\* C6 as stated: every indexed document is among the hits of a query made of
\* one word of its content, however many documents hold that word.
C6_RoundTripAnyCount ==
    QueryOutcome =>
        \A i \in 1..Len(writer_docs) : HoldsWord(writer_docs[i], keyword) => Found(i)

SameTerm(kw) == {j \in 1..Len(writer_docs) : LowerWord(kw) \in Terms(writer_docs[j].content)}
IsReservedWord(kw) == Canon(kw) \in {WordAnd, WordOr, WordNot, WordIn}

\* C6 amended: every indexed document is among the hits of a query made of
\* one word of its content, when the word is shorter than 40 bytes, is not
\* one of the reserved words AND, OR, NOT, IN of the query language, and at
\* most 10 indexed documents hold its term.
C6_RoundTripWithinLimit ==
    /\ QueryOutcome
    /\ ByteLen(keyword) < 40
    /\ ~IsReservedWord(keyword)
    /\ Cardinality(SameTerm(keyword)) <= TopLimit
    => \A i \in 1..Len(writer_docs) : HoldsWord(writer_docs[i], keyword) => Found(i)

C6_Witness ==
    /\ Answered
    /\ Cardinality(SameTerm(keyword)) = TopLimit
    /\ Len(writer_docs) > TopLimit
    /\ \A i \in SameTerm(keyword) :
        HoldsWord(writer_docs[i], keyword) /\ writer_docs[i].path \in result.hits

Classified == pc = "classified"

\* C8 as stated: a file with a NUL byte anywhere is classified binary and is
\* not indexed.
C8_AnyNulIsBinary ==
    Classified /\ ContainsByte(cfile.bytes, 0) =>
        ~cdecision.verdict /\ cdecision.decision # "indexed"

\* C8 amended: a file with a NUL byte among its first 8192 bytes is
\* classified binary, whatever its extension, and is not indexed.
C8_SampledNulIsBinary ==
    Classified /\ ContainsByte(Sample(cfile.bytes), 0) =>
        ~cdecision.verdict /\ cdecision.decision = "skipped_non_text"

C8_Witness ==
    /\ Classified
    /\ cfile.ext = ExtTxt
    /\ ByteLen(cfile.bytes) > SampleLimit
    /\ ContainsByte(Sample(cfile.bytes), 0)
    /\ cfile.bytes[1][1] # 0
    /\ ~cdecision.verdict

LooksLikeText(bytes) ==
    /\ ByteLen(bytes) > 0
    /\ IsValidUtf8(bytes)
    /\ ~ContainsByte(bytes, 0)
    /\ CountControl(bytes) * 10 <= 3 * ByteLen(bytes)

\* C9 as stated: a non-empty file of valid UTF-8 without NUL and with a
\* control-character ratio of at most 0.3 is classified text, whatever its
\* name, extension and length.
C9_TextWhateverNameAndLength ==
    Classified /\ cfile.readable /\ LooksLikeText(cfile.bytes) => cdecision.verdict

\* C9 amended: a readable file whose extension is not denylisted and whose
\* first 8192 bytes are non-empty valid UTF-8 without NUL and with a
\* control-character ratio of at most 0.3 is classified text.
C9_TextOnSample ==
    Classified /\ cfile.readable /\ ~HasBinaryExtension(cfile.ext)
        /\ LooksLikeText(Sample(cfile.bytes)) => cdecision.verdict

C9_Witness ==
    /\ Classified
    /\ cfile.readable
    /\ ~HasBinaryExtension(cfile.ext)
    /\ LooksLikeText(Sample(cfile.bytes))
    /\ CountAscii(Sample(cfile.bytes)) = 0
    /\ cdecision.verdict

RECURSIVE CountFiles(_)
\* the regular files below a sequence of directory entries
CountFiles(es) ==
    IF es = <<>> THEN 0
    ELSE (IF Head(es).kind = "file" THEN 1
          ELSE IF Head(es).kind = "dir" THEN CountFiles(Head(es).entries)
          ELSE 0) + CountFiles(Tail(es))

AddAborted == Terminated /\ result.tag = "Document addition error"

\* C10: between entries and after the walk found = indexed + skipped; found
\* counts every regular file once; indexed is the number of documents added
\* to the writer; no added document is blank.
C10_CountersBalance ==
    /\ ~AddAborted => found_files_count = indexed_files_count + skipped_files_count
    /\ indexed_files_count = Len(writer_docs)
    /\ \A i \in 1..Len(writer_docs) : ~IsBlank(writer_docs[i].content)
    /\ Executed("walked") => found_files_count = CountFiles(directory.entries)

C10_Witness ==
    /\ pc = "walked"
    /\ indexed_files_count >= 2
    /\ skipped_files_count >= 1
====
